---- MODULE Spec2Model ----
(***************************************************************************)
(* State-machine model of the workforce orchestrator of youtu-agent:       *)
(* WorkforceAgent.run (utu/agents/workforce_agent.py) driving the Planner, *)
(* Assigner, Executor and Answerer roles around the shared                 *)
(* WorkforceTaskRecorder ledger (utu/agents/workforce/data.py).            *)
(*                                                                         *)
(* The run is one coroutine; pc is its position.  Every LLM response is an *)
(* input drawn from a small set; the regex parsers are modelled on token   *)
(* sequences so that what they accept and what they default is computed.   *)
(*                                                                         *)
(* The modules are taken as loaded.  answerer.py imports the name          *)
(* WorkspaceTaskRecorder, which data.py does not define (it defines        *)
(* WorkforceTaskRecorder); the name is used in annotations only.           *)
(*                                                                         *)
(* A second specification, ToolSpec, models the tool adapters the          *)
(* executors call: the process pool behind execute_python_code             *)
(* (utu/tools/python_executor_toolkit.py) and run_bash                     *)
(* (utu/tools/bash_toolkit.py).  Its steps are the stretches of a          *)
(* coroutine between two awaits; Spec leaves the tool state untouched and  *)
(* ToolSpec the orchestrator's.                                            *)
(***************************************************************************)
EXTENDS Integers, Sequences, FiniteSets, TLC

\* ---------------------------------------------------------------- bounds
\* Largest configured planner_max_reflection explored.
MaxReflection == 1
\* Largest configured planner_modify_budgets explored.
MaxBudgets == 1
\* Largest max_workers of the process pool explored.
MaxWorkers == 2
\* Number of concurrent execute_python_code calls explored.
MaxCalls == 2
\* Largest configured run_bash timeout explored, in clock ticks.
MaxTimeout == 2

\* ---------------------------------------------------------------- values
\* Python's None for a str-typed field.
None == "None"

\* Raw <task> contents the Planner may emit: a plain name ("A"), a name
\* padded with whitespace (" B ") and an all-blank region ("  ").
\* The <task> regions of plan_task responses, in order.
PlanTexts ==
    {<<>>, <<"A">>, <<"  ", " B ">>, <<"A", " B ", "A">>}

\* str.strip() on the raw contents above.
Strip(s) == CASE s = " B " -> "B"
              [] s = "  " -> ""
              [] OTHER -> s

\* Keys of executor_agent_group, built from workforce_executor_agents.
executor_agent_group == {"Exec1"}

\* Well-formed Assigner responses: <mode>, <selected_agent> and the
\* <direct_answer> or <detailed_task_description> that goes with the mode.
\* "Ghost" is a name outside the registry, "OTHER" a mode outside the protocol.
AssignResponses ==
    {[mode |-> "DIRECT_ANSWER", agent |-> "Exec1", direct_answer |-> "42",
      description |-> ""],
     [mode |-> "ASSIGN_AGENT", agent |-> "Exec1", direct_answer |-> "",
      description |-> "d"],
     [mode |-> "ASSIGN_AGENT", agent |-> "Ghost", direct_answer |-> "",
      description |-> "d"],
     [mode |-> "OTHER", agent |-> "Exec1", direct_answer |-> "",
      description |-> "d"]}

\* Subtask(task_id=..., task_name=...) with the dataclass defaults.
Subtask(id, name) ==
    [task_id |-> id, task_name |-> name, task_description |-> None,
     task_status |-> "not started", task_result |-> None,
     task_result_detailed |-> None, task_mode |-> None,
     assigned_agent |-> None, task_direct_answer |-> None]

\* [x for x in seq if pred(x)] with a mapping applied, as list comprehension.
RECURSIVE StripNonBlank(_)
StripNonBlank(seq) ==
    IF seq = <<>> THEN <<>>
    ELSE IF Strip(Head(seq)) # ""
         THEN <<Strip(Head(seq))>> \o StripNonBlank(Tail(seq))
         ELSE StripNonBlank(Tail(seq))

\* ---------------------------------------------------------------- ledger
\* The statuses plan_check classifies a finished subtask into.
TerminalStatus == {"success", "partial success", "failed"}

\* Mutant: the plan is searched from its end.
get_next_task_Last(plan) ==
    IF \E i \in DOMAIN plan : plan[i].task_status = "not started"
    THEN CHOOSE i \in DOMAIN plan :
            /\ plan[i].task_status = "not started"
            /\ \A j \in (i + 1)..Len(plan) : plan[j].task_status # "not started"
    ELSE 0

\* Mutant: a failed subtask is handed out again.
get_next_task_Retry(plan) ==
    IF \E i \in DOMAIN plan : plan[i].task_status \in {"not started", "failed"}
    THEN CHOOSE i \in DOMAIN plan :
            /\ plan[i].task_status \in {"not started", "failed"}
            /\ \A j \in 1..(i - 1) : plan[j].task_status \notin {"not started", "failed"}
    ELSE 0

\* WorkforceTaskRecorder.get_next_task: index of the first "not started"
\* subtask, 0 for None.
get_next_task(plan) ==
    IF \E i \in DOMAIN plan : plan[i].task_status = "not started"
    THEN CHOOSE i \in DOMAIN plan :
            /\ plan[i].task_status = "not started"
            /\ \A j \in 1..(i - 1) : plan[j].task_status # "not started"
    ELSE 0

\* Mutant: only the last subtask of the plan is looked at.
has_failed_task_LastOnly(plan) ==
    plan # <<>> /\ plan[Len(plan)].task_status = "failed"

\* WorkforceTaskRecorder.has_failed_task
has_failed_task(plan) == \E i \in DOMAIN plan : plan[i].task_status = "failed"

\* Python slice seq[:n] for n >= 0.
SliceTo(seq, n) == SubSeq(seq, 1, IF n < Len(seq) THEN n ELSE Len(seq))

\* Python slice seq[n:] for n >= 0.
SliceFrom(seq, n) == SubSeq(seq, n + 1, Len(seq))

\* Subtask.formatted_with_result: the id, name and status tags, and the
\* result tag when a result is set.
formatted_with_result(task) ==
    <<task.task_id, task.task_name, task.task_status>>
        \o (IF task.task_result # None THEN <<task.task_result>> ELSE <<>>)

\* WorkforceTaskRecorder.formatted_task_plan_list_with_task_results
formatted_task_plan_list_with_task_results(plan) ==
    [i \in 1..Len(plan) |-> formatted_with_result(plan[i])]

\* plan_update: "task_plan_list[: last_task_id + 1]", the section of the
\* prompt headed as the previous task plan.
previous_task_plan(plan, last_task_id) ==
    SliceTo(formatted_task_plan_list_with_task_results(plan), last_task_id + 1)

\* plan_update: "task_plan_list[last_task_id + 1 :]", the section of the
\* prompt headed as the unfinished task plan.
unfinished_task_plan(plan, last_task_id) ==
    SliceFrom(formatted_task_plan_list_with_task_results(plan), last_task_id + 1)

\* WorkforceTaskRecorder.plan_init
plan_init(plan_list) == plan_list

\* Mutant: the new tasks are numbered with enumerate(updated_plan).
NewTaskId_FromZero(task_id, i) == task_id + i - 1

\* The id given to the i-th (1-based, enumerate(updated_plan, 1)) new task.
NewTaskId(task_id, i) == task_id + i

\* Mutant: the prefix is cut one short, self.task_plan[: task.task_id - 1].
FinishedTasks_OneShort(plan, task_id) == SliceTo(plan, task_id - 1)

\* Mutant: the kept prefix reaches one subtask past the cursor.
FinishedTasks_OneMore(plan, task_id) == SliceTo(plan, task_id + 1)

\* The finished prefix kept by plan_update: self.task_plan[: task.task_id].
FinishedTasks(plan, task_id) == SliceTo(plan, task_id)

\* Mutant: the new tasks are appended to the whole old plan.
data_plan_update_KeepTail(plan, task_id, updated_plan) ==
    plan \o [i \in 1..Len(updated_plan) |->
                Subtask(task_id + i, updated_plan[i])]

\* WorkforceTaskRecorder.plan_update(task, updated_plan) -> new task_plan
data_plan_update(plan, task_id, updated_plan) ==
    FinishedTasks(plan, task_id)
        \o [i \in 1..Len(updated_plan) |->
                Subtask(NewTaskId(task_id, i), updated_plan[i])]

\* Mutant: an unclear uniqueness is rejected like a non-unique one.
answer_quality_acceptable_UniqueOnly(confidence, uniqueness) ==
    /\ confidence \in {"high", "medium"}
    /\ uniqueness = "unique"

\* WorkforceTaskRecorder.check_tentative_answer_quality (the boolean).
answer_quality_acceptable(confidence, uniqueness) ==
    /\ confidence \in {"high", "medium"}
    /\ uniqueness # "non-unique"


\* ---------------------------------------------------------------- parsers
\* None for a field holding text modelled as a token sequence.
NoneSeq == <<"None">>

\* str.lower() on one token.
Lower(t) == CASE t = "HIGH" -> "high"
              [] t = "FAILED" -> "failed"
              [] t = "Yes" -> "yes"
              [] OTHER -> t

\* str.strip().lower() on a token text: blanks at both ends dropped.
RECURSIVE LStrip(_)
LStrip(s) == IF s # <<>> /\ Head(s) = " " THEN LStrip(Tail(s)) ELSE s
RECURSIVE RStrip(_)
RStrip(s) == IF s # <<>> /\ s[Len(s)] = " "
             THEN RStrip(SubSeq(s, 1, Len(s) - 1)) ELSE s
StripLower(s) == [i \in DOMAIN RStrip(LStrip(s)) |-> Lower(RStrip(LStrip(s))[i])]

IsPrefix(p, s) == Len(p) <= Len(s) /\ SubSeq(s, 1, Len(p)) = p
IsSuffix(p, s) == Len(p) <= Len(s) /\ SubSeq(s, Len(s) - Len(p) + 1, Len(s)) = p
IsInfix(p, s) == \E i \in 0..(Len(s) - Len(p)) : SubSeq(s, i + 1, i + Len(p)) = p

\* AnswererAgent._parse_final_response._check
_check(s, p) ==
    IsPrefix(p, s) \/ IsInfix(<<" ">> \o p \o <<" ">>, s) \/ IsSuffix(p, s)

\* Answerer responses: the contents of <answer> (None: tag missing),
\* <confidence> and <answer_uniqueness> (NoneSeq: tag missing), as token
\* texts; "non-unique" is the two tokens "non-" "unique".
FinalAnswerResponses ==
    {[answer |-> "42", confidence |-> <<"HIGH">>, uniqueness |-> <<"unique">>],
     [answer |-> "42", confidence |-> <<" ", "medium">>,
      uniqueness |-> <<"non-", "unique">>],
     [answer |-> "X", confidence |-> <<"medium">>, uniqueness |-> <<"unclear">>],
     [answer |-> None, confidence |-> NoneSeq, uniqueness |-> NoneSeq],
     [answer |-> "X", confidence |-> <<"low">>,
      uniqueness |-> <<"non-", "unique", " ", "answers">>],
     [answer |-> "42", confidence |-> <<"HIGH">>,
      uniqueness |-> <<"non-", "unique", " ", "answers">>],
     [answer |-> "X", confidence |-> <<"low">>, uniqueness |-> <<"unique">>]}

\* The stripped full response, used when <answer> is missing.
RawResponse == "<raw response>"

\* _parse_final_response: the confidence.
ParseConfidence(text) ==
    LET confidence_text == IF text = NoneSeq THEN <<"low">> ELSE StripLower(text)
    IN  IF _check(confidence_text, <<"high">>) THEN "high"
        ELSE IF _check(confidence_text, <<"medium">>) THEN "medium"
        ELSE "low"

\* _parse_final_response: the uniqueness assessment.
ParseUniqueness(text) ==
    LET uniqueness_text == IF text = NoneSeq THEN <<"unclear">> ELSE StripLower(text)
    IN  IF _check(uniqueness_text, <<"unique">>) THEN "unique"
        ELSE IF _check(uniqueness_text, <<"non-", "unique">>) THEN "non-unique"
        ELSE "unclear"

\* _parse_final_response: the answer.
ParseAnswer(text) == IF text = None THEN RawResponse ELSE text

\* Texts the Planner may put in <task_status> (NoneSeq: tag missing).
StatusTexts ==
    {NoneSeq, <<"success">>, <<" ", "FAILED">>, <<"partial", "_success">>,
     <<"done">>}

\* Mutant: an unrecognized status value counts as a failure.
_parse_check_response_FailUnknown(text) ==
    IF text = NoneSeq THEN "partial success"
    ELSE LET task_status == StripLower(text)
         IN  IF \E i \in DOMAIN task_status : task_status[i] = "partial"
             THEN "partial success"
             ELSE IF task_status = <<"success">> THEN "success" ELSE "failed"

\* PlannerAgent._parse_check_response
_parse_check_response(text) ==
    IF text = NoneSeq THEN "partial success"
    ELSE LET task_status == StripLower(text)
         IN  IF \E i \in DOMAIN task_status : task_status[i] = "partial"
             THEN "partial success"
             ELSE IF task_status \in {<<"success">>, <<"failed">>,
                                      <<"partial success">>}
                  THEN task_status[1]
                  ELSE "partial success"

\* Texts the Answerer may put in <correct> (NoneSeq: tag missing).
CorrectTexts == {NoneSeq, <<"Yes">>, <<"no">>}

\* AnswererAgent.answer_self_check: the value returned, as the tuple of its
\* components.  The method returns one bare bool.
answer_self_check(text) ==
    IF text # NoneSeq THEN <<StripLower(text) = <<"yes">>>> ELSE <<FALSE>>

\* "a, b = value" succeeds exactly on a value of two components.
CanUnpack2(value) == Len(value) = 2

\* Contents of <choice> in a plan_update response (None: tag missing).
ChoiceTexts == {None, "continue", "update", "early_completion", "stop"}

\* The <task> regions inside <updated_unfinished_task_plan>, in order
\* (NoneSeq: tag missing).
UpdatedPlanTexts ==
    {NoneSeq, <<>>, <<"  ">>, <<" B ">>, <<" B ", "  ", "A">>}

\* PlannerAgent._parse_update_response -> <<choice, updated_tasks>>
_parse_update_response(choice_text, plan_text) ==
    LET choice == IF choice_text # None THEN choice_text ELSE "continue"
        updated_tasks ==
            IF choice = "update" /\ plan_text # NoneSeq
                                 /\ StripNonBlank(plan_text) # <<>>
            THEN StripNonBlank(plan_text)
            ELSE NoneSeq
    IN  <<choice, updated_tasks>>

\* Contents of <helpful_experience_or_fact> (None: tag missing).
ExperienceTexts == {None, "  ", "E"}

\* Results an executor may leave on a subtask.
ResultTexts == {"r1"}

\* ---------------------------------------------------------------- state
VARIABLES
    pc,                         \* position of run() (the next await)
    err,                        \* exception that ended the run, None if none
    planner_max_reflection,     \* self.planner_max_reflection (config)
    planner_modify_budgets,     \* config: planner_modify_budgets
    _planner_reflection_count,  \* local of run()
    _modify_plan_budgets,       \* PlannerAgent._modify_plan_budgets
    task_plan,                  \* recorder.task_plan
    next_task,                  \* local of run(): id of the Subtask, 0 unbound
    failure_info,               \* recorder.failure_info (text pieces)
    experience_from_failure,    \* recorder.experience_from_failure
    tentative_answer,           \* recorder.tentative_answer
    tentative_answer_confidence,
    tentative_answer_uniqueness_assessment,
    final_output,               \* recorder.final_output (TaskRecorder)
    calls,                      \* history: calls made of each role operation
    gate,                       \* history: outcome of the latest gate pass
    last_update,                \* history: the latest plan_update call
    last_check                  \* history: the plan_check call just returned

\* The tool adapters the executors call: the process pool behind
\* execute_python_code and the run_bash call.
VARIABLES
    max_workers,                \* ProcessPoolManager.max_workers
    available_processes,        \* ProcessPoolManager.available_processes
    process_pools,              \* keys of ProcessPoolManager.process_pools
    py_call,                    \* the execute_python_code calls
    timed_out,                  \* history: executors whose job outran its call
    next_executor,              \* identity of the next executor constructed
    bash_timeout,               \* BashToolkit.timeout
    bash_call,                  \* the run_bash call
    bash_clock                  \* wallclock ticks spent in communicate()

tools == <<max_workers, available_processes, process_pools, py_call,
           timed_out, next_executor, bash_timeout, bash_call, bash_clock>>

ledger == <<task_plan, failure_info, experience_from_failure, tentative_answer,
            tentative_answer_confidence, tentative_answer_uniqueness_assessment,
            final_output>>

\* The configuration, fixed for the run.
config == <<planner_max_reflection, planner_modify_budgets>>

\* The state of run() and of the ledger it works on.
orchestrator == <<pc, err, config, _planner_reflection_count,
                  _modify_plan_budgets, task_plan, next_task, failure_info,
                  experience_from_failure, tentative_answer,
                  tentative_answer_confidence,
                  tentative_answer_uniqueness_assessment, final_output, calls,
                  gate, last_update, last_check>>

vars == <<orchestrator, tools>>

\* The Answerer response with none of its three tags.
NoTags == [answer |-> None, confidence |-> NoneSeq, uniqueness |-> NoneSeq]

\* No gate evaluated yet in this pass.  answer is the response
\* extract_final_answer parsed; response and value are the <correct> text
\* of the self-check response and what answer_self_check returned for it.
NoGate == [quality |-> "none", self_check |-> "none", passed |-> FALSE,
           answer |-> NoTags, response |-> NoneSeq, value |-> <<>>]

\* No plan_check call has just returned.  task is the id of the checked
\* subtask, response the <task_status> text of the Planner's response.
NoCheck == [task |-> 0, response |-> NoneSeq]

\* No plan_update call has just returned.
NoUpdate == [cursor |-> 0, parsed |-> None, choice |-> None,
             updated_plan |-> NoneSeq, applied |-> FALSE]

\* Saturating call counter: counts exactly up to the cap.
CallCap == MaxReflection + MaxBudgets + 3
Count(n) == IF n < CallCap THEN n + 1 ELSE n

\* The execute_python_code calls explored.
Calls == 1..MaxCalls

\* An execute_python_code call not yet made.  executor is the local of the
\* call (0: None), outcome what the awaited job did, result the returned
\* record as <<success, status>>, raised the exception that left the call.
NoPyCall == [pc |-> "idle", executor |-> 0, outcome |-> None,
             result |-> <<>>, raised |-> None]

\* The run_bash call not yet made.  result is the returned value: its
\* kind (str or dict) and the success / status entry of a dict.
NoBashCall == [pc |-> "idle", command |-> None,
               result |-> [kind |-> None, success |-> None]]

\* No toolkit is constructed: the orchestrator itself calls no tool.
ToolsUnused ==
    /\ max_workers = 0
    /\ available_processes = <<>>
    /\ process_pools = {}
    /\ py_call = [c \in Calls |-> NoPyCall]
    /\ timed_out = {}
    /\ next_executor = 1
    /\ bash_timeout = 0
    /\ bash_call = NoBashCall
    /\ bash_clock = 0

\* WorkforceAgent.__init__, the construction in run() and the dataclass
\* defaults of WorkforceTaskRecorder / TaskRecorder.
Init ==
    /\ pc = "plan_task"
    /\ err = None
    /\ planner_max_reflection \in 1..MaxReflection
    /\ _planner_reflection_count = 0
    /\ planner_modify_budgets \in 0..MaxBudgets
    /\ _modify_plan_budgets = planner_modify_budgets
    /\ task_plan = <<>>
    /\ next_task = 0
    /\ failure_info = <<>>
    /\ experience_from_failure = ""
    /\ tentative_answer = ""
    /\ tentative_answer_confidence = ""
    /\ tentative_answer_uniqueness_assessment = ""
    /\ final_output = ""
    /\ calls = [plan_task |-> 0, reflect_on_failure |-> 0,
                update_choice |-> 0, tail_replaced |-> 0]
    /\ gate = NoGate
    /\ last_update = NoUpdate
    /\ last_check = NoCheck
    /\ ToolsUnused

\* An exception propagates out of run(): nothing after it executes.
Raise(e) == pc' = "crashed" /\ err' = e

\* "while recorder.get_next_task() is not None": where the inner loop goes.
InnerLoopHead(plan) ==
    IF get_next_task(plan) # 0 THEN "assign_task" ELSE "reflection"

\* Mutant: the "no tasks left" break before plan_update is missing.
AfterTask_NoBreak(plan) == "plan_update"

\* "if recorder.get_next_task() is None: break", else on to plan_update.
AfterTask(plan) ==
    IF get_next_task(plan) = 0 THEN "reflection" ELSE "plan_update"

\* ---------------------------------------------------------------- planner
\* Mutant: the new subtasks are appended to the plan already there.
PlannedTasks_Extend(raw_tasks) ==
    LET tasks_content == StripNonBlank(raw_tasks)
    IN  task_plan \o [i \in 1..Len(tasks_content) |->
                        Subtask(Len(task_plan) + i, tasks_content[i])]

\* PlannerAgent.plan_task: the Subtasks built from the parsed <task> regions,
\* Subtask(task_id=i + 1, ...) for the 0-based position i.
PlannedTasks(raw_tasks) ==
    LET tasks_content == StripNonBlank(raw_tasks)
    IN  [i \in 1..Len(tasks_content) |-> Subtask(i, tasks_content[i])]

\* PlannerAgent.plan_task: the experience left on the ledger.
PlannedExperience(exp_text) ==
    IF failure_info # NoneSeq /\ exp_text # None /\ Strip(exp_text) # ""
    THEN Strip(exp_text)
    ELSE experience_from_failure

\* "await planner_agent.plan_task(recorder)" and the head of the inner loop.
PlanTask ==
    /\ pc = "plan_task"
    /\ \E raw_tasks \in PlanTexts, exp_text \in ExperienceTexts :
        /\ task_plan' = plan_init(PlannedTasks(raw_tasks))
        /\ experience_from_failure' = PlannedExperience(exp_text)
    /\ calls' = [calls EXCEPT !.plan_task = Count(@)]
    /\ pc' = InnerLoopHead(task_plan')
    /\ UNCHANGED <<tools, err, config, _planner_reflection_count,
                   _modify_plan_budgets, next_task, failure_info,
                   tentative_answer, tentative_answer_confidence,
                   tentative_answer_uniqueness_assessment, final_output,
                   gate, last_update, last_check>>

\* ---------------------------------------------------------------- assigner
\* Mutant: assign_task also marks the subtask as started.
Assigned_MarksStarted(task, mode, agent, direct_answer, description) ==
    IF mode = "DIRECT_ANSWER"
    THEN [task EXCEPT !.assigned_agent = agent,
                      !.task_mode = "DIRECT_ANSWER",
                      !.task_direct_answer = direct_answer,
                      !.task_status = "in progress"]
    ELSE [task EXCEPT !.assigned_agent = agent,
                      !.task_mode = "ASSIGN_AGENT",
                      !.task_description = description,
                      !.task_status = "in progress"]

\* AssignerAgent.assign_task: the fields written on the next task.
Assigned(task, mode, agent, direct_answer, description) ==
    IF mode = "DIRECT_ANSWER"
    THEN [task EXCEPT !.assigned_agent = agent,
                      !.task_mode = "DIRECT_ANSWER",
                      !.task_direct_answer = direct_answer]
    ELSE [task EXCEPT !.assigned_agent = agent,
                      !.task_mode = "ASSIGN_AGENT",
                      !.task_description = description]

\* "next_task = await assigner_agent.assign_task(recorder)".  A response
\* without the tags _parse_assign_result needs raises ValueError.
AssignTask ==
    /\ pc = "assign_task"
    /\ \/ /\ Raise("ValueError")
          /\ UNCHANGED <<task_plan, next_task>>
       \/ \E r \in AssignResponses :
            LET n == get_next_task(task_plan)
            IN  /\ task_plan' = [task_plan EXCEPT ![n] =
                        Assigned(@, r.mode, r.agent, r.direct_answer, r.description)]
                /\ next_task' = n
                /\ pc' = "dispatch"
                /\ UNCHANGED err
    /\ last_update' = NoUpdate
    /\ UNCHANGED <<tools, config, _planner_reflection_count,
                   _modify_plan_budgets, failure_info, experience_from_failure,
                   tentative_answer, tentative_answer_confidence,
                   tentative_answer_uniqueness_assessment, final_output,
                   calls, gate, last_check>>

\* ---------------------------------------------------------------- dispatch
\* Mutant: the branch sets the status and records no result.
DirectAnswered_NoResult(task) ==
    [task EXCEPT !.task_status = "success"]

\* Mutant: the branch forgets task_result_detailed.
DirectAnswered_NoDetailed(task) ==
    [task EXCEPT !.task_status = "success",
                 !.task_result = task.task_direct_answer]

\* Mutant: the branch records the answer but leaves the status alone.
DirectAnswered_NoStatus(task) ==
    [task EXCEPT !.task_result = task.task_direct_answer,
                 !.task_result_detailed = task.task_direct_answer]

\* The DIRECT_ANSWER branch of run(): the task is finished on the spot.
DirectAnswered(task) ==
    [task EXCEPT !.task_status = "success",
                 !.task_result = task.task_direct_answer,
                 !.task_result_detailed = task.task_direct_answer]

DirectAnswer ==
    /\ pc = "dispatch"
    /\ task_plan[next_task].task_mode = "DIRECT_ANSWER"
    /\ task_plan' = [task_plan EXCEPT ![next_task] = DirectAnswered(@)]
    /\ pc' = AfterTask(task_plan')
    /\ UNCHANGED <<tools, err, config, _planner_reflection_count,
                   _modify_plan_budgets, next_task, failure_info,
                   experience_from_failure, tentative_answer,
                   tentative_answer_confidence,
                   tentative_answer_uniqueness_assessment, final_output,
                   calls, gate, last_update, last_check>>

\* ExecutorAgent.execute_task: result and detailed result are set, the
\* status is left for the Planner to classify.
execute_task(task, result) ==
    [task EXCEPT !.task_status = "in progress",
                 !.task_result = result,
                 !.task_result_detailed = result]

\* "await executor_agent_group[next_task.assigned_agent].execute_task(...)":
\* the dict lookup raises KeyError for a name that is no key.
ExecuteTask ==
    /\ pc = "dispatch"
    /\ task_plan[next_task].task_mode # "DIRECT_ANSWER"
    /\ IF task_plan[next_task].assigned_agent \notin executor_agent_group
       THEN /\ Raise("KeyError")
            /\ UNCHANGED task_plan
       ELSE /\ \E result \in ResultTexts :
                task_plan' = [task_plan EXCEPT ![next_task] = execute_task(@, result)]
            /\ pc' = "plan_check"
            /\ UNCHANGED err
    /\ UNCHANGED <<tools, config, _planner_reflection_count,
                   _modify_plan_budgets, next_task, failure_info,
                   experience_from_failure, tentative_answer,
                   tentative_answer_confidence,
                   tentative_answer_uniqueness_assessment, final_output,
                   calls, gate, last_update, last_check>>

\* "await planner_agent.plan_check(recorder, next_task)" and the
\* "no tasks left" test that follows it.
PlanCheck ==
    /\ pc = "plan_check"
    /\ \E text \in StatusTexts :
        /\ task_plan' = [task_plan EXCEPT ![next_task].task_status =
                            _parse_check_response(text)]
        /\ last_check' = [task |-> task_plan[next_task].task_id,
                          response |-> text]
    /\ pc' = AfterTask(task_plan')
    /\ UNCHANGED <<tools, err, config, _planner_reflection_count,
                   _modify_plan_budgets, next_task, failure_info,
                   experience_from_failure, tentative_answer,
                   tentative_answer_confidence,
                   tentative_answer_uniqueness_assessment, final_output,
                   calls, gate, last_update>>

\* ---------------------------------------------------------------- plan update
\* Mutant: an update choice costs two units of budget.
BudgetAfterUpdate_ByTwo(budget) == budget - 2

\* Mutant: an update choice costs nothing.
BudgetAfterUpdate_NoDecrement(budget) == budget

\* "self._modify_plan_budgets -= 1"
BudgetAfterUpdate(budget) == budget - 1

\* Mutant: the budget check lets a budget of zero through.
BudgetExhausted_Negative(budget) == budget < 0

\* Mutant: the budget check is missing, the Planner is always consulted.
BudgetExhausted_Never(budget) == FALSE

\* "if self._modify_plan_budgets <= 0: return 'continue'"
BudgetExhausted(budget) == budget <= 0

\* Mutant: the early_completion branch forgets its break.
AfterUpdate_NoBreak(choice, plan) == InnerLoopHead(plan)

\* The branch of run() on plan_update_choice: early_completion breaks out
\* of the inner loop, update and continue go back to its head.
AfterUpdate(choice, plan) ==
    IF choice = "early_completion" THEN "reflection" ELSE InnerLoopHead(plan)

\* Mutant: any parsed tail, a missing one included, is applied.
ValidUpdatedPlan_Always(updated_plan) == TRUE

\* "if updated_plan is not None and len(updated_plan) > 0"
ValidUpdatedPlan(updated_plan) ==
    updated_plan # NoneSeq /\ Len(updated_plan) > 0

\* Mutant: the decrement stands inside the test of the new tail, so only
\* an applied update is charged.
ChargedForUpdate_OnlyApplied(valid) == valid

\* "self._modify_plan_budgets -= 1" stands before "if updated_plan is not
\* None and len(updated_plan) > 0": every update choice is charged.
ChargedForUpdate(valid) == TRUE

\* Mutant: the final "else: raise ValueError" is missing.
plan_update_raises_Never(choice) == FALSE

\* The if / elif chain of plan_update on the parsed choice ends in
\* "else: raise ValueError(...)".
plan_update_raises(choice) ==
    choice \notin {"continue", "update", "early_completion"}

\* "plan_update_choice = await planner_agent.plan_update(recorder, next_task)"
\* with the branch on the choice and the head of the inner loop.
PlanUpdate ==
    /\ pc = "plan_update"
    /\ LET task_id == task_plan[next_task].task_id
       IN  IF BudgetExhausted(_modify_plan_budgets)
           THEN /\ last_update' = [cursor |-> task_id, parsed |-> None,
                                   choice |-> "continue",
                                   updated_plan |-> NoneSeq, applied |-> FALSE]
                /\ pc' = AfterUpdate("continue", task_plan)
                /\ UNCHANGED <<err, task_plan, _modify_plan_budgets, calls>>
           ELSE \E choice_text \in ChoiceTexts, plan_text \in UpdatedPlanTexts :
                LET parsed == _parse_update_response(choice_text, plan_text)
                    choice == parsed[1]
                    updated_plan == parsed[2]
                    valid == ValidUpdatedPlan(updated_plan)
                IN  IF plan_update_raises(choice)
                    THEN /\ Raise("ValueError")
                         /\ last_update' = [cursor |-> task_id, parsed |-> choice,
                                            choice |-> None,
                                            updated_plan |-> NoneSeq,
                                            applied |-> FALSE]
                         /\ UNCHANGED <<task_plan, _modify_plan_budgets, calls>>
                    ELSE IF choice = "update"
                    THEN /\ _modify_plan_budgets' =
                               IF ChargedForUpdate(valid)
                               THEN BudgetAfterUpdate(_modify_plan_budgets)
                               ELSE _modify_plan_budgets
                         /\ task_plan' = IF valid
                                         THEN data_plan_update(task_plan, task_id, updated_plan)
                                         ELSE task_plan
                         /\ last_update' =
                               [cursor |-> task_id, parsed |-> choice,
                                choice |-> IF valid THEN "update" ELSE "continue",
                                updated_plan |-> updated_plan, applied |-> valid]
                         /\ calls' = [calls EXCEPT
                               !.update_choice = Count(@),
                               !.tail_replaced = IF valid THEN Count(@) ELSE @]
                         /\ pc' = AfterUpdate(IF valid THEN "update" ELSE "continue",
                                              task_plan')
                         /\ UNCHANGED err
                    ELSE /\ last_update' = [cursor |-> task_id, parsed |-> choice,
                                            choice |-> choice,
                                            updated_plan |-> NoneSeq,
                                            applied |-> FALSE]
                         /\ pc' = AfterUpdate(choice, task_plan)
                         /\ UNCHANGED <<err, task_plan, _modify_plan_budgets, calls>>
    /\ last_check' = NoCheck
    /\ UNCHANGED <<tools, config, _planner_reflection_count, next_task,
                   failure_info, experience_from_failure, tentative_answer,
                   tentative_answer_confidence,
                   tentative_answer_uniqueness_assessment, final_output,
                   gate>>

\* ---------------------------------------------------------------- reflection
\* Mutant: the test is written with > for >=.
MaxReflectionReached_Strict(count, max) == count > max

\* Mutant: the pass that starts with the counter at the maximum is still
\* evaluated.
MaxReflectionReached_PlusOne(count, max) == count >= max + 1

\* "if _planner_reflection_count >= self.planner_max_reflection: break"
MaxReflectionReached(count, max) == count >= max

\* Python runs the else clause of a while loop only when the loop ends by
\* its condition turning false, never when it ends by break.
LoopElseRuns(ended_by_break) == ~ended_by_break

\* The else clause of the outer loop: "if not recorder.final_output:
\* recorder.set_final_output(recorder.tentative_answer)".
FinalOutputAtExit(ended_by_break) ==
    IF LoopElseRuns(ended_by_break) /\ final_output = ""
    THEN tentative_answer
    ELSE final_output

\* Step 5 of run(): the reflection budget test, the counter and check 0.
SelfReflection ==
    /\ pc = "reflection"
    /\ IF MaxReflectionReached(_planner_reflection_count, planner_max_reflection)
       THEN /\ final_output' = FinalOutputAtExit(TRUE)
            /\ pc' = "done"
            /\ UNCHANGED <<_planner_reflection_count, gate>>
       ELSE /\ _planner_reflection_count' = _planner_reflection_count + 1
            /\ gate' = NoGate
            /\ pc' = IF has_failed_task(task_plan) THEN "reflect_failed"
                                                   ELSE "extract_final_answer"
            /\ UNCHANGED final_output
    /\ last_update' = NoUpdate
    /\ last_check' = NoCheck
    /\ UNCHANGED <<tools, err, config, _modify_plan_budgets, task_plan,
                   next_task, failure_info, experience_from_failure,
                   tentative_answer, tentative_answer_confidence,
                   tentative_answer_uniqueness_assessment, calls>>

\* check_tentative_answer_quality: the failure reasons, joined by " and ".
failure_reason(confidence, uniqueness) ==
    IF answer_quality_acceptable(confidence, uniqueness) THEN <<>>
    ELSE LET r1 == IF confidence = "low"
                   THEN <<"answer confidence too low">> ELSE <<>>
             r2 == IF uniqueness \in {"unclear", "non-unique"}
                   THEN <<"answer uniqueness insufficient">> ELSE <<>>
         IN  IF r1 # <<>> /\ r2 # <<>> THEN r1 \o <<" and ">> \o r2 ELSE r1 \o r2

\* The additional_context run() passes to reflect_on_failure at each place.
additional_context(at) ==
    CASE at = "reflect_failed" -> <<>>
      [] at = "reflect_quality" ->
            <<"REFLECTION_FAILURE_PROMPT_1", tentative_answer>>
                \o failure_reason(tentative_answer_confidence,
                                  tentative_answer_uniqueness_assessment)
      [] at = "reflect_self_check" ->
            <<"REFLECTION_FAILURE_PROMPT_2", tentative_answer>>

\* PlannerAgent.reflect_on_failure: the text written to failure_info.
reflection_result(text, context) ==
    IF context # <<>> THEN <<text, "\n\n">> \o context ELSE <<text>>

\* "await planner_agent.reflect_on_failure(recorder, ...)", after which the
\* outer loop starts its next pass.
ReflectOnFailure ==
    /\ pc \in {"reflect_failed", "reflect_quality", "reflect_self_check"}
    /\ \E text \in {"R"} :
        failure_info' = reflection_result(text, additional_context(pc))
    /\ calls' = [calls EXCEPT !.reflect_on_failure = Count(@)]
    /\ pc' = "plan_task"
    /\ UNCHANGED <<tools, err, config, _planner_reflection_count,
                   _modify_plan_budgets, task_plan, next_task,
                   experience_from_failure, tentative_answer,
                   tentative_answer_confidence,
                   tentative_answer_uniqueness_assessment, final_output,
                   gate, last_update, last_check>>

\* ---------------------------------------------------------------- answerer
\* "await answerer_agent.extract_final_answer(recorder)" and check 1.
ExtractFinalAnswer ==
    /\ pc = "extract_final_answer"
    /\ \E r \in FinalAnswerResponses :
        LET ok == answer_quality_acceptable(ParseConfidence(r.confidence),
                                            ParseUniqueness(r.uniqueness))
        IN  /\ tentative_answer' = ParseAnswer(r.answer)
            /\ tentative_answer_confidence' = ParseConfidence(r.confidence)
            /\ tentative_answer_uniqueness_assessment' =
                    ParseUniqueness(r.uniqueness)
            /\ gate' = [gate EXCEPT
                            !.quality = IF ok THEN "acceptable" ELSE "rejected",
                            !.answer = r]
            /\ pc' = IF ok THEN "answer_self_check" ELSE "reflect_quality"
    /\ UNCHANGED <<tools, err, config, _planner_reflection_count,
                   _modify_plan_budgets, task_plan, next_task, failure_info,
                   experience_from_failure, final_output, calls, last_update, last_check>>

\* "self_check_passed, self_check_failure_analysis = await
\* answerer_agent.answer_self_check(recorder)" and check 2.  Unpacking a
\* value that is not a pair raises TypeError.
AnswerSelfCheck ==
    /\ pc = "answer_self_check"
    /\ \E text \in CorrectTexts :
        LET value == answer_self_check(text)
            said == IF value[1] THEN "yes" ELSE "no"
        IN  IF ~CanUnpack2(value)
            THEN /\ Raise("TypeError")
                 /\ gate' = [gate EXCEPT !.self_check = said,
                                      !.response = text, !.value = value]
                 /\ UNCHANGED final_output
            ELSE IF ~value[1]
            THEN /\ gate' = [gate EXCEPT !.self_check = said,
                                      !.response = text, !.value = value]
                 /\ IF next_task = 0
                    THEN Raise("UnboundLocalError")
                    ELSE pc' = "reflect_self_check" /\ UNCHANGED err
                 /\ UNCHANGED final_output
            ELSE /\ gate' = [gate EXCEPT !.self_check = said, !.passed = TRUE,
                                      !.response = text, !.value = value]
                 /\ final_output' = tentative_answer
                 /\ pc' = "done"
                 /\ UNCHANGED err
    /\ UNCHANGED <<tools, config, _planner_reflection_count,
                   _modify_plan_budgets, task_plan, next_task, failure_info,
                   experience_from_failure, tentative_answer,
                   tentative_answer_confidence,
                   tentative_answer_uniqueness_assessment, calls, last_update, last_check>>

\* ---------------------------------------------------------------- system
Next ==
    \/ PlanTask
    \/ AssignTask
    \/ DirectAnswer
    \/ ExecuteTask
    \/ PlanCheck
    \/ PlanUpdate
    \/ SelfReflection
    \/ ReflectOnFailure
    \/ ExtractFinalAnswer
    \/ AnswerSelfCheck

Spec == Init /\ [][Next]_vars

\* Every role call returns: the coroutine always takes its next step.
FairSpec == Spec /\ WF_vars(Next)

\* ---------------------------------------------------------------- tools
\* The orchestrator as constructed and not run, while the tools are driven.
OrchestratorIdle ==
    /\ pc = "plan_task"
    /\ err = None
    /\ planner_max_reflection = 1
    /\ _planner_reflection_count = 0
    /\ planner_modify_budgets = 0
    /\ _modify_plan_budgets = 0
    /\ task_plan = <<>>
    /\ next_task = 0
    /\ failure_info = <<>>
    /\ experience_from_failure = ""
    /\ tentative_answer = ""
    /\ tentative_answer_confidence = ""
    /\ tentative_answer_uniqueness_assessment = ""
    /\ final_output = ""
    /\ calls = [plan_task |-> 0, reflect_on_failure |-> 0,
                update_choice |-> 0, tail_replaced |-> 0]
    /\ gate = NoGate
    /\ last_update = NoUpdate
    /\ last_check = NoCheck

\* ProcessPoolManager._init_manager (max_workers executors, each queued and
\* registered) and BashToolkit.__init__ (the configured timeout).
ToolInit ==
    /\ OrchestratorIdle
    /\ max_workers \in 1..MaxWorkers
    /\ available_processes = [i \in 1..max_workers |-> i]
    /\ process_pools = 1..max_workers
    /\ py_call = [c \in Calls |-> NoPyCall]
    /\ timed_out = {}
    /\ next_executor = max_workers + 1
    /\ bash_timeout \in 1..MaxTimeout
    /\ bash_call = NoBashCall
    /\ bash_clock = 0

\* The elements of a queue.
Range(queue) == {queue[i] : i \in 1..Len(queue)}

\* pickle stores a function by its qualified name: a function defined at
\* module level can be sent to a worker process, a lambda cannot.
Picklable(fn) == fn = "_execute_python_code_sync"

\* Mutant: the health check passes for every executor.
health_check_AlwaysHealthy(busy) == TRUE

\* release_process: "future = executor.submit(lambda: True);
\* future.result(timeout=1)" returns only when the lambda reaches the worker
\* and the worker answers within the second; any exception fails the check.
health_check(busy) == Picklable("lambda") /\ ~busy

\* Mutant: the replaced executor stays registered.
Replaced_KeepOld(pools, old, new) == pools \cup {new}

\* release_process, except branch: "del self.process_pools[id(executor)]"
\* and "self.process_pools[id(new_executor)] = new_executor".
Replaced(pools, old, new) == (pools \ {old}) \cup {new}

\* release_process(executor) -> <<available_processes, process_pools,
\* next_executor>>; busy tells whether the executor is still running a job.
release_process(executor, busy) ==
    IF executor \notin process_pools
    THEN <<available_processes, process_pools, next_executor>>
    ELSE IF health_check(busy)
    THEN <<Append(available_processes, executor), process_pools,
           next_executor>>
    ELSE <<Append(available_processes, next_executor),
           Replaced(process_pools, executor, next_executor),
           next_executor + 1>>

\* The records _execute_python_code_sync returns, as <<success, status>>:
\* the normal return (status True, success by the captured output) and the
\* return of its own except clause.
WorkerResults == {<<TRUE, TRUE>>, <<FALSE, TRUE>>, <<FALSE, FALSE>>}

\* The record both except clauses of execute_python_code return.
FailureRecord == <<FALSE, FALSE>>

\* Mutant: the "except Exception" clause is missing.
Caught_OnlyTimeout(exc) == exc = "TimeoutError"

\* "except TimeoutError" and "except Exception": every exception raised in
\* the try block derives from Exception.
Caught(exc) ==
    exc = "TimeoutError"
        \/ exc \in {"TimeoutError", "RuntimeError", "BrokenProcessPool"}

\* How an execute_python_code call ends: with the worker's record, with
\* the failure record of an except clause, or with the exception.
Settled(call, outcome, exc, res) ==
    IF exc = None
    THEN [call EXCEPT !.pc = "returned", !.outcome = outcome, !.result = res]
    ELSE IF Caught(exc)
    THEN [call EXCEPT !.pc = "returned", !.outcome = outcome,
                      !.result = FailureRecord]
    ELSE [call EXCEPT !.pc = "raised", !.outcome = outcome, !.raised = exc]

\* run_bash calls the blocking process.communicate() inside the coroutine:
\* until it returns, nothing else runs on the event loop.
LoopFree == bash_call.pc # "communicate"

\* execute_python_code up to its await: acquire_process and the submission
\* of the job.  On an empty queue the get() times out, acquire_process
\* raises RuntimeError and the call ends with executor still None.
StartCall(c) ==
    /\ LoopFree
    /\ py_call[c].pc = "idle"
    /\ IF available_processes # <<>>
       THEN /\ py_call' = [py_call EXCEPT ![c] =
                    [@ EXCEPT !.pc = "running",
                              !.executor = Head(available_processes)]]
            /\ available_processes' = Tail(available_processes)
       ELSE /\ py_call' = [py_call EXCEPT ![c] =
                    Settled(@, "no_worker", "RuntimeError", <<>>)]
            /\ UNCHANGED available_processes
    /\ UNCHANGED <<orchestrator, max_workers, process_pools, timed_out,
                   next_executor, bash_timeout, bash_call, bash_clock>>

\* The await of execute_python_code returns or raises, the call ends and
\* its finally clause releases the executor.
FinishCall(c) ==
    /\ LoopFree
    /\ py_call[c].pc = "running"
    /\ \E outcome \in {"result", "timeout", "exception"}, res \in WorkerResults :
        LET executor == py_call[c].executor
            busy == outcome = "timeout"
            exc == CASE outcome = "result" -> None
                     [] outcome = "timeout" -> "TimeoutError"
                     [] outcome = "exception" -> "BrokenProcessPool"
            released == release_process(executor, busy)
        IN  /\ py_call' = [py_call EXCEPT ![c] = Settled(@, outcome, exc, res)]
            /\ timed_out' = IF busy THEN timed_out \cup {executor}
                                    ELSE timed_out
            /\ available_processes' = released[1]
            /\ process_pools' = released[2]
            /\ next_executor' = released[3]
    /\ UNCHANGED <<orchestrator, max_workers, bash_timeout, bash_call,
                   bash_clock>>

\* Commands given to run_bash: one that exits with 0, one that exits with
\* another code, one with a banned string, one that never terminates.
Commands == {"true", "false", "git init", "sleep infinity"}

\* "self.banned_command_strs"
banned_command_strs == {"git init", "git commit", "git add"}

\* The shell process given this command exits at some time.
Terminates(command) == command # "sleep infinity"

\* run_bash up to process.communicate(): the banned string check returns a
\* message, any other command is written to the sandboxed shell.
RunBash ==
    /\ bash_call.pc = "idle"
    /\ \E command \in Commands :
        bash_call' =
            IF command \in banned_command_strs
            THEN [pc |-> "returned", command |-> command,
                  result |-> [kind |-> "str", success |-> None]]
            ELSE [pc |-> "communicate", command |-> command,
                  result |-> [kind |-> None, success |-> None]]
    /\ bash_clock' = 0
    /\ UNCHANGED <<orchestrator, max_workers, available_processes,
                   process_pools, py_call, timed_out, next_executor,
                   bash_timeout>>

\* Wallclock time passes while communicate() waits; counted up to one tick
\* past the configured timeout.
BashTick ==
    /\ bash_call.pc = "communicate"
    /\ bash_clock <= bash_timeout
    /\ bash_clock' = bash_clock + 1
    /\ UNCHANGED <<orchestrator, max_workers, available_processes,
                   process_pools, py_call, timed_out, next_executor,
                   bash_timeout, bash_call>>

\* The shell exits, communicate() returns and run_bash returns the record
\* for the return code.
BashExit ==
    /\ bash_call.pc = "communicate"
    /\ Terminates(bash_call.command)
    /\ bash_call' = [bash_call EXCEPT
            !.pc = "returned",
            !.result = [kind |-> "dict",
                        success |-> IF bash_call.command = "true"
                                    THEN "True" ELSE "False"]]
    /\ UNCHANGED <<orchestrator, max_workers, available_processes,
                   process_pools, py_call, timed_out, next_executor,
                   bash_timeout, bash_clock>>

ToolNext ==
    \/ \E c \in Calls : StartCall(c)
    \/ \E c \in Calls : FinishCall(c)
    \/ RunBash
    \/ BashTick
    \/ BashExit

\* The tool adapters driven by concurrent calls on one event loop.
ToolSpec == ToolInit /\ [][ToolNext]_vars

\* ---------------------------------------------------------------- claims
\* The run has ended, by return or by an exception.
Terminated == pc \in {"done", "crashed"}

\* C1: whenever run() returns without the gate having passed, final_output
\* equals the most recent tentative_answer.
C1_FallbackFinalization ==
    (pc = "done" /\ ~gate.passed) => final_output = tentative_answer

\* C2: once a gate iteration is over, it has set final_output to
\* tentative_answer if and only if the quality was acceptable and the
\* self-check answered yes.
C2_GateAcceptance ==
    LET over == gate.quality = "rejected" \/ gate.self_check # "none"
        both == gate.quality = "acceptable" /\ gate.self_check = "yes"
    IN  over => /\ both <=> gate.passed
                /\ gate.passed => final_output = tentative_answer

\* C3: when no subtask of the first plan failed and the first gate found
\* the quality acceptable and the self-check yes, run() has returned with
\* final_output the extracted answer, after one plan_task call and no
\* reflect_on_failure call.
C3_HappyPath ==
    (/\ calls.plan_task = 1
     /\ ~has_failed_task(task_plan)
     /\ gate.quality = "acceptable"
     /\ gate.self_check = "yes")
    => /\ pc = "done"
       /\ final_output = tentative_answer
       /\ calls.reflect_on_failure = 0

\* C4: at every normal return final_output is set and the confidence is
\* one of low, medium, high.
C4_FinalAnswerWithConfidence ==
    pc = "done" => /\ final_output # ""
                   /\ tentative_answer_confidence \in {"low", "medium", "high"}

\* C5: plan_task is called at most max_reflection + 1 times and the
\* reflection counter never exceeds max_reflection.
C5_ReflectionBound ==
    /\ calls.plan_task <= planner_max_reflection + 1
    /\ _planner_reflection_count <= planner_max_reflection

\* A run that used its whole reflection budget: max_reflection + 1 plans.
C5_Witness ==
    /\ pc = "done"
    /\ planner_max_reflection >= 1
    /\ calls.plan_task = planner_max_reflection + 1
    /\ _planner_reflection_count = planner_max_reflection

\* C6: when every role call returns, every run terminates.
C6_Termination == <>Terminated

\* A run that returned after a replan whose plan was extended by an update.
C6_Witness ==
    /\ pc = "done"
    /\ calls.plan_task >= 2
    /\ \E i \in DOMAIN task_plan : task_plan[i].task_id >= 3

\* C7: an agent name outside the registry ends the run only when no
\* reflection budget remains; otherwise the orchestrator reflects and replans.
C7_UnknownAgentReflects ==
    err = "KeyError" => _planner_reflection_count >= planner_max_reflection

\* C8: the subtask at position i (1-based here) has id i.
C8_PlanIdContinuity ==
    \A i \in DOMAIN task_plan : task_plan[i].task_id = i

\* A plan whose tail was just replaced behind a finished first subtask.
C8_Witness ==
    /\ last_update.applied
    /\ last_update.cursor >= 1
    /\ Len(task_plan) >= 3

\* C9: a plan_update at cursor c leaves every subtask with id <= c as it was.
C9_FinishedPrefixPreserved ==
    [][(pc = "plan_update" /\ pc' # "crashed")
        => \A i \in DOMAIN task_plan :
              task_plan[i].task_id <= task_plan[next_task].task_id
              => (i \in DOMAIN task_plan' /\ task_plan'[i] = task_plan[i])]_vars

\* An applied update behind two finished subtasks.
C9_Witness ==
    /\ last_update.applied
    /\ last_update.cursor >= 2
    /\ task_plan[1].task_status # "not started"
    /\ task_plan[2].task_status # "not started"

\* C10: an update applied at cursor i with k >= 1 names yields the old
\* subtasks 1..i followed by k fresh subtasks with ids i+1..i+k in the
\* given order, and nothing else.
C10_UpdateReplacesTail ==
    [][(pc = "plan_update" /\ last_update'.applied)
        => LET i == last_update'.cursor
               names == last_update'.updated_plan
               k == Len(names)
           IN  /\ k >= 1
               /\ Len(task_plan') = i + k
               /\ \A j \in 1..i : task_plan'[j] = task_plan[j]
               /\ \A j \in 1..k :
                     /\ task_plan'[i + j].task_id = i + j
                     /\ task_plan'[i + j].task_name = names[j]
                     /\ task_plan'[i + j].task_status = "not started"
                     /\ task_plan'[i + j].task_result = None]_vars

\* An update that put two new subtasks, in order, behind the first one.
C10_Witness ==
    /\ last_update.applied
    /\ last_update.cursor = 1
    /\ last_update.updated_plan = <<"B", "A">>
    /\ Len(task_plan) = 3
    /\ task_plan[2].task_name = "B"
    /\ task_plan[3].task_name = "A"

\* C11: a subtask whose status is success, partial success or failed is
\* never modified again: every step but plan_task leaves it as it is, and
\* plan_task replaces the plan by freshly constructed subtasks.
C11_TerminalStatusMonotone ==
    [][\A i \in DOMAIN task_plan :
          task_plan[i].task_status \in TerminalStatus
          => IF pc = "plan_task"
             THEN \A j \in DOMAIN task_plan' :
                     task_plan'[j] = Subtask(j, task_plan'[j].task_name)
             ELSE i \in DOMAIN task_plan' /\ task_plan'[i] = task_plan[i]]_vars

\* A failed first subtask that went through the dispatch and check of the
\* second one and a tail replacement behind it.
C11_Witness ==
    /\ last_update.applied
    /\ last_update.cursor = 2
    /\ task_plan[1].task_status = "failed"
    /\ task_plan[2].task_status \in TerminalStatus

\* C12: a DIRECT_ANSWER subtask is never executed nor checked: it waits
\* for its dispatch untouched, and from then on it has status success and
\* result = result_detailed = direct_answer.
C12_DirectAnswerShortCircuit ==
    /\ pc = "plan_check" => task_plan[next_task].task_mode # "DIRECT_ANSWER"
    /\ \A i \in DOMAIN task_plan :
          task_plan[i].task_mode = "DIRECT_ANSWER"
          => IF pc = "dispatch" /\ i = next_task
             THEN /\ task_plan[i].task_status = "not started"
                  /\ task_plan[i].task_result = None
             ELSE /\ task_plan[i].task_status = "success"
                  /\ task_plan[i].task_result = task_plan[i].task_direct_answer
                  /\ task_plan[i].task_result_detailed = task_plan[i].task_direct_answer

\* A direct-answered subtask followed by an executed one.
C12_Witness ==
    /\ Len(task_plan) >= 2
    /\ task_plan[1].task_mode = "DIRECT_ANSWER"
    /\ task_plan[1].task_result = "42"
    /\ task_plan[2].task_mode = "ASSIGN_AGENT"
    /\ task_plan[2].task_status \in TerminalStatus

\* C13: whenever run() is about to dispatch an ASSIGN_AGENT subtask, its
\* assigned_agent is a key of the executor registry.
C13_DispatchWellFormed ==
    (pc = "dispatch" /\ task_plan[next_task].task_mode = "ASSIGN_AGENT")
    => task_plan[next_task].assigned_agent \in executor_agent_group

\* C14: the modify-plan budget decreases by exactly one at each update
\* choice of the planner (with or without a usable new tail), is unchanged
\* by continue and early_completion choices and by every other step, and
\* is never below zero.
C14_BudgetStep ==
    /\ [](_modify_plan_budgets >= 0)
    /\ [][_modify_plan_budgets' =
             IF pc = "plan_update" /\ last_update'.parsed = "update"
             THEN _modify_plan_budgets - 1
             ELSE _modify_plan_budgets]_vars

\* The last unit of a positive budget has just been spent on an update.
C14_Witness ==
    /\ last_update.parsed = "update"
    /\ planner_modify_budgets >= 1
    /\ _modify_plan_budgets = 0

\* C15: once as many update choices as the initial budget have been
\* consumed, a further plan_update call returns continue and leaves the
\* plan unmodified.
C15_ExhaustedBudgetContinues ==
    [][(pc = "plan_update" /\ calls.update_choice >= planner_modify_budgets)
       => /\ pc' # "crashed"
          /\ last_update'.cursor = task_plan[next_task].task_id
          /\ last_update'.choice = "continue"
          /\ task_plan' = task_plan]_vars

\* plan_update has returned continue without consulting the planner's
\* model, after a positive budget was used up.
C15_Witness ==
    /\ last_update.cursor >= 1
    /\ last_update.parsed = None
    /\ last_update.choice = "continue"
    /\ planner_modify_budgets >= 1
    /\ calls.update_choice = planner_modify_budgets

\* C16: over one run, replans included, the number of plan-tail
\* replacements is at most the initial modify-plan budget, and no step
\* (plan_task and reflect_on_failure in particular) raises the budget.
C16_TailReplacementsBounded ==
    /\ [](calls.tail_replaced <= planner_modify_budgets)
    /\ [][_modify_plan_budgets' <= _modify_plan_budgets]_vars
    /\ [][(pc \in {"plan_task", "reflect_failed", "reflect_quality",
                   "reflect_self_check"})
          => UNCHANGED _modify_plan_budgets]_vars

\* A run with a replan has returned having replaced the tail as often as
\* its positive budget allowed.
C16_Witness ==
    /\ pc = "done"
    /\ calls.plan_task >= 2
    /\ planner_modify_budgets >= 1
    /\ calls.tail_replaced = planner_modify_budgets

\* Positions of run() between the end of the inner loop and the next
\* plan_task: the reflection check and the three checks of the gate.
GatePcs == {"reflection", "reflect_failed", "extract_final_answer",
            "reflect_quality", "answer_self_check", "reflect_self_check"}

\* C17 as stated: whenever plan_update has returned early_completion, the
\* orchestrator goes on to the gate, which evaluates the partial results
\* (the failed-task check, then the Answerer).
C17_EarlyCompletionReachesGate ==
    [][(pc = "reflection" /\ last_update.choice = "early_completion")
       => pc' \in {"reflect_failed", "extract_final_answer"}]_vars

\* C17 amended: when plan_update returns early_completion the inner loop
\* ends at once with a not_started subtask left; no subtask is assigned or
\* executed and the plan is untouched until the next plan_task; the gate
\* evaluates the partial results if reflection budget remains, and
\* otherwise run() returns without evaluating them.
C17_EarlyCompletionEndsPass ==
    /\ [][(pc = "plan_update" /\ last_update'.choice = "early_completion")
          => /\ pc' = "reflection"
             /\ task_plan' = task_plan
             /\ get_next_task(task_plan) # 0]_vars
    /\ [][(pc \in GatePcs)
          => /\ task_plan' = task_plan
             /\ pc' \in GatePcs \cup {"plan_task", "done", "crashed"}]_vars
    /\ [][(pc = "reflection" /\ last_update.choice = "early_completion")
          => IF _planner_reflection_count < planner_max_reflection
             THEN pc' \in {"reflect_failed", "extract_final_answer"}
             ELSE pc' = "done" /\ UNCHANGED gate]_vars

\* The Answerer is about to evaluate a plan that still has a not_started
\* subtask: the pass was cut short by early_completion.
C17_Witness ==
    /\ pc = "extract_final_answer"
    /\ get_next_task(task_plan) # 0
    /\ \E i \in DOMAIN task_plan : task_plan[i].task_status \in TerminalStatus

\* C18: if the inner loop ends with reflection budget remaining and some
\* subtask of the plan is failed, the reflection counter goes up by one,
\* reflect_on_failure is called with no extra context (failure_info becomes
\* the reflection text alone), the Answerer is not invoked in that
\* iteration, and the next call is plan_task.
C18_FailedTaskReflects ==
    /\ [][(/\ pc = "reflection"
           /\ _planner_reflection_count < planner_max_reflection
           /\ \E i \in DOMAIN task_plan : task_plan[i].task_status = "failed")
          => /\ _planner_reflection_count' = _planner_reflection_count + 1
             /\ pc' = "reflect_failed"
             /\ gate' = NoGate
             /\ UNCHANGED <<tentative_answer, tentative_answer_confidence,
                            tentative_answer_uniqueness_assessment>>]_vars
    /\ [][(pc = "reflect_failed")
          => /\ pc' = "plan_task"
             /\ Len(failure_info') = 1
             /\ failure_info' = reflection_result(failure_info'[1], <<>>)
             /\ calls'.reflect_on_failure = Count(calls.reflect_on_failure)
             /\ calls'.plan_task = calls.plan_task
             /\ gate' = NoGate
             /\ UNCHANGED <<tentative_answer, tentative_answer_confidence,
                            tentative_answer_uniqueness_assessment,
                            final_output>>]_vars

\* A replan is about to start after a pass whose first subtask failed and
\* whose last one succeeded, with the bare reflection text as failure_info.
C18_Witness ==
    /\ pc = "plan_task"
    /\ calls.plan_task >= 1
    /\ calls.reflect_on_failure >= 1
    /\ Len(task_plan) >= 2
    /\ task_plan[1].task_status = "failed"
    /\ task_plan[Len(task_plan)].task_status = "success"
    /\ failure_info = <<"R">>
    /\ gate = NoGate

\* C19: if the quality gate passes but the self-check answers no, then
\* reflect_on_failure is invoked with the self-check context, final_output
\* is not set in that iteration, failure_info is updated by the reflection
\* and the outer loop goes back to plan_task.
C19_SelfCheckNoReflects ==
    /\ [][(pc = "answer_self_check" /\ gate'.self_check = "no")
          => /\ pc' = "reflect_self_check"
             /\ final_output' = final_output]_vars
    /\ [][(pc = "reflect_self_check")
          => /\ pc' = "plan_task"
             /\ final_output' = final_output
             /\ \E k \in DOMAIN failure_info' :
                   failure_info'[k] = "REFLECTION_FAILURE_PROMPT_2"]_vars

\* C20: answer_self_check returns a pair (passed, analysis), and passed is
\* true exactly when the response has a <correct> tag whose trimmed,
\* lower-cased content is yes.
C20_SelfCheckReturnsPair ==
    gate.self_check # "none"
    => /\ Len(gate.value) = 2
       /\ gate.value[1] <=> (/\ gate.response # NoneSeq
                             /\ StripLower(gate.response) = <<"yes">>)

\* C21: check_tentative_answer_quality accepts iff the confidence is high
\* or medium and the uniqueness is not non-unique; when it rejects, the
\* reason holds "answer confidence too low" exactly when the confidence is
\* low and "answer uniqueness insufficient" exactly when the uniqueness is
\* unclear or non-unique, joined by " and " when both apply.
C21_AnswerQuality ==
    gate.quality # "none"
    => LET c == tentative_answer_confidence
           u == tentative_answer_uniqueness_assessment
           low == c = "low"
           weak == u \in {"unclear", "non-unique"}
           reason == failure_reason(c, u)
       IN  /\ (gate.quality = "acceptable")
                <=> (c \in {"high", "medium"} /\ u # "non-unique")
           /\ gate.quality = "rejected"
              => reason =
                   CASE low /\ weak -> <<"answer confidence too low", " and ",
                                         "answer uniqueness insufficient">>
                     [] low /\ ~weak -> <<"answer confidence too low">>
                     [] ~low /\ weak -> <<"answer uniqueness insufficient">>
                     [] OTHER -> <<>>

\* The gate has rejected an answer for both reasons and the reflection on
\* it is about to run.
C21_Witness ==
    /\ pc = "reflect_quality"
    /\ gate.quality = "rejected"
    /\ tentative_answer_confidence = "low"
    /\ tentative_answer_uniqueness_assessment = "non-unique"

\* The values the Answerer's protocol allows in <confidence> and
\* <answer_uniqueness>, as token texts.
ConfidenceValues == {<<"high">>, <<"medium">>, <<"low">>}
UniquenessValues == {<<"unique">>, <<"non-", "unique">>, <<"unclear">>}

\* C22: for a response whose <confidence> is one of high, medium, low and
\* whose <answer_uniqueness> is one of unique, non-unique, unclear,
\* extract_final_answer stores exactly the emitted value of each (non-unique
\* as non-unique); a missing tag stores answer = the full response,
\* confidence = low, uniqueness = unclear.
C22_StoresEmittedValues ==
    gate.quality # "none"
    => LET r == gate.answer
       IN  /\ r.confidence \in ConfidenceValues
              => tentative_answer_confidence = r.confidence[1]
           /\ r.uniqueness \in UniquenessValues
              => tentative_answer_uniqueness_assessment =
                     IF r.uniqueness = <<"non-", "unique">> THEN "non-unique"
                     ELSE r.uniqueness[1]
           /\ r.answer = None => tentative_answer = RawResponse
           /\ r.confidence = NoneSeq => tentative_answer_confidence = "low"
           /\ r.uniqueness = NoneSeq
              => tentative_answer_uniqueness_assessment = "unclear"

\* C23: plan_check always writes one of success, partial success, failed to
\* the checked subtask: a <task_status> containing "partial" becomes partial
\* success, an exact (case-insensitive, trimmed) success or failed is kept,
\* anything else and a missing tag become partial success; it never writes
\* "not started" and never raises on the response text.
C23_PlanCheckStatus ==
    last_check.task # 0
    => LET status == task_plan[last_check.task].task_status
           text == last_check.response
           value == StripLower(text)
       IN  /\ pc # "crashed"
           /\ status \in TerminalStatus
           /\ status =
                CASE text = NoneSeq -> "partial success"
                  [] text # NoneSeq /\ (\E i \in DOMAIN value : value[i] = "partial")
                        -> "partial success"
                  [] text # NoneSeq /\ value = <<"success">> -> "success"
                  [] text # NoneSeq /\ value = <<"failed">> -> "failed"
                  [] OTHER -> "partial success"

\* plan_check has just classified a subtask on a response whose status
\* value is not one of the protocol's.
C23_Witness ==
    /\ last_check.task # 0
    /\ last_check.response = <<"done">>
    /\ task_plan[last_check.task].task_status = "partial success"

\* C24: plan_task plans in initial mode exactly when failure_info is empty:
\* then experience_from_failure is left untouched, and only a replan (with
\* failure_info non-empty) may overwrite it; the first plan_task of a run
\* is an initial plan.
C24_InitialPlanLeavesExperience ==
    [][(pc = "plan_task" /\ failure_info = <<>>)
       => /\ calls.plan_task = 0
          /\ experience_from_failure' = experience_from_failure]_vars

\* C25: after every plan_task the plan consists solely of the subtasks
\* parsed from that response, blank names dropped, in order, each with
\* status "not started" and no result, description, mode, agent or direct
\* answer; no subtask of an earlier plan remains.
C25_PlanTaskReplacesPlan ==
    [][(pc = "plan_task")
       => \E raw_tasks \in PlanTexts :
            LET names == StripNonBlank(raw_tasks)
            IN  /\ Len(task_plan') = Len(names)
                /\ \A i \in DOMAIN task_plan' :
                     task_plan'[i] =
                       [task_id |-> i, task_name |-> names[i],
                        task_description |-> None,
                        task_status |-> "not started",
                        task_result |-> None, task_result_detailed |-> None,
                        task_mode |-> None, assigned_agent |-> None,
                        task_direct_answer |-> None]]_vars

\* A replan has just put a one-subtask plan in the place of a plan that
\* had a finished subtask.
C25_Witness ==
    /\ calls.plan_task = 2
    /\ pc = "assign_task"
    /\ failure_info # <<>>
    /\ task_plan = <<Subtask(1, "B")>>

\* C26: if the Planner chooses update but the parsed new tail is missing or
\* empty, plan_update returns continue and the plan is left unchanged.
C26_EmptyTailContinues ==
    [][(/\ pc = "plan_update"
        /\ last_update'.parsed = "update"
        /\ (last_update'.updated_plan = NoneSeq
            \/ last_update'.updated_plan = <<>>))
       => /\ last_update'.choice = "continue"
          /\ ~last_update'.applied
          /\ task_plan' = task_plan
          /\ pc' = "assign_task"]_vars

\* plan_update has just returned continue for an update choice that came
\* without a usable tail.
C26_Witness ==
    /\ last_update.cursor >= 1
    /\ last_update.parsed = "update"
    /\ last_update.updated_plan = NoneSeq
    /\ last_update.choice = "continue"
    /\ pc = "assign_task"

\* C27: a plan_update response whose <choice> is present but is none of
\* continue, update, early_completion raises an error that ends the run:
\* no further role operation runs, and the plan and the modify-plan budget
\* are unchanged by that call.
C27_UnknownChoiceFatal ==
    /\ [][(/\ pc = "plan_update"
           /\ last_update'.parsed
                \notin {None, "continue", "update", "early_completion"})
          => /\ pc' = "crashed"
             /\ err' = "ValueError"
             /\ task_plan' = task_plan
             /\ UNCHANGED <<_modify_plan_budgets, calls>>]_vars
    /\ [][pc # "crashed"]_vars

\* The run has ended on the ValueError of plan_update for the choice "stop",
\* with a subtask still not started.
C27_Witness ==
    /\ pc = "crashed"
    /\ err = "ValueError"
    /\ last_update.cursor >= 1
    /\ last_update.parsed = "stop"
    /\ get_next_task(task_plan) # 0

\* C28 as stated: in every reachable ledger state and for every subtask of
\* the plan, the result is non-null if and only if the status is one of
\* success, partial success, failed.
C28_ResultIffTerminal ==
    \A i \in DOMAIN task_plan :
        (task_plan[i].task_result # None)
            <=> (task_plan[i].task_status \in TerminalStatus)

\* C28 amended: a subtask's result is non-null iff its status is terminal,
\* except for the one subtask whose execution has returned and which
\* plan_check has not classified yet: it is "in progress" with its result
\* and detailed result set, and it is the subtask plan_check is called on.
C28_ResultIffTerminalOrInProgress ==
    \A i \in DOMAIN task_plan :
        LET task == task_plan[i]
        IN  /\ (task.task_result # None)
                 <=> (task.task_status \in TerminalStatus \cup {"in progress"})
            /\ task.task_result = None => task.task_result_detailed = None
            /\ task.task_status = "in progress"
                 => /\ pc = "plan_check"
                    /\ i = next_task
                    /\ task.task_result_detailed # None

\* A plan holding a direct answer, a subtask executed and waiting for
\* plan_check, and a subtask not started yet.
C28_Witness ==
    /\ pc = "plan_check"
    /\ Len(task_plan) = 3
    /\ task_plan[1].task_mode = "DIRECT_ANSWER"
    /\ task_plan[1].task_status = "success"
    /\ task_plan[1].task_result = "42"
    /\ next_task = 2
    /\ task_plan[2].task_status = "in progress"
    /\ task_plan[2].task_result = "r1"
    /\ task_plan[3].task_status = "not started"
    /\ task_plan[3].task_result = None

\* The status of the subtask at position i after the step, its status
\* before the step if the position is gone.
StatusAfter(i) ==
    IF i \in DOMAIN task_plan' THEN task_plan'[i].task_status
    ELSE task_plan[i].task_status

\* C29 as stated: a subtask's status leaves "not started" only through the
\* Assigner's assign operation, and becomes terminal only through the
\* Planner's plan_check.
C29_StatusOnlyViaAssignAndCheck ==
    [][\A i \in DOMAIN task_plan :
         LET old == task_plan[i].task_status
         IN  /\ (old = "not started" /\ StatusAfter(i) # "not started")
                  => pc = "assign_task"
             /\ (old \notin TerminalStatus /\ StatusAfter(i) \in TerminalStatus)
                  => pc = "plan_check"]_vars

\* C29 amended: a subtask's status leaves "not started" only in the
\* dispatch that follows the Assigner's assign operation on it (to success
\* for a direct answer, to "in progress" when an executor runs it), and it
\* becomes terminal only through plan_check or through the direct-answer
\* short-circuit; assign itself leaves the status alone.
C29_StatusOnlyViaDispatchAndCheck ==
    [][\A i \in DOMAIN task_plan :
         LET old == task_plan[i].task_status
             mode == task_plan[i].task_mode
         IN  /\ (old = "not started" /\ StatusAfter(i) # "not started")
                  => /\ pc = "dispatch"
                     /\ i = next_task
                     /\ mode \in {"DIRECT_ANSWER", "ASSIGN_AGENT"}
                     /\ StatusAfter(i) = IF mode = "DIRECT_ANSWER"
                                         THEN "success" ELSE "in progress"
             /\ (old \notin TerminalStatus /\ StatusAfter(i) \in TerminalStatus)
                  => /\ i = next_task
                     /\ \/ pc = "plan_check" /\ old = "in progress"
                        \/ /\ pc = "dispatch"
                           /\ mode = "DIRECT_ANSWER"
                           /\ StatusAfter(i) = "success"
             /\ pc = "assign_task" => StatusAfter(i) = old]_vars

\* plan_check has just classified the second subtask of a plan whose first
\* one was answered directly; a third one is still to be assigned.
C29_Witness ==
    /\ pc = "plan_update"
    /\ last_check.task = 2
    /\ task_plan[1].task_mode = "DIRECT_ANSWER"
    /\ task_plan[1].task_status = "success"
    /\ task_plan[2].task_mode = "ASSIGN_AGENT"
    /\ task_plan[2].task_status \in TerminalStatus
    /\ get_next_task(task_plan) = 3

\* The subtask at position n, just handed to the Assigner, is the
\* "not started" subtask with the smallest id, was never handed out before
\* (it had no mode and no agent yet), and every subtask handed out before
\* has a smaller id.
HandedOutInOrder(n) ==
    /\ n \in DOMAIN task_plan
    /\ task_plan[n].task_status = "not started"
    /\ \A j \in DOMAIN task_plan :
         task_plan[j].task_status = "not started"
            => task_plan[j].task_id >= task_plan[n].task_id
    /\ task_plan[n].task_mode = None
    /\ task_plan[n].assigned_agent = None
    /\ \A j \in DOMAIN task_plan :
         task_plan[j].task_mode # None
            => task_plan[j].task_id < task_plan[n].task_id

\* C30 as stated: within one planning pass the subtask handed to the
\* Assigner is always the "not started" subtask with the smallest id, a
\* subtask is dispatched only after the previous one has been checked (by
\* plan_check), and no subtask is dispatched twice.
C30_SequentialAfterCheck ==
    [][(pc = "assign_task" /\ pc' = "dispatch")
       => /\ HandedOutInOrder(next_task')
          /\ \A j \in DOMAIN task_plan :
               task_plan[j].task_id < task_plan[next_task'].task_id
                  => /\ task_plan[j].task_status \in TerminalStatus
                     /\ task_plan[j].task_mode = "ASSIGN_AGENT"]_vars

\* C30 amended: as stated, with "the previous one has been checked"
\* replaced by "the previous one has finished": classified by plan_check
\* or, for a direct answer, set to success by the short-circuit.
C30_SequentialAfterFinish ==
    [][(pc = "assign_task" /\ pc' = "dispatch")
       => /\ HandedOutInOrder(next_task')
          /\ task_plan'[next_task'].task_mode # None
          /\ \A j \in DOMAIN task_plan :
               task_plan[j].task_id < task_plan[next_task'].task_id
                  => /\ task_plan[j].task_status \in TerminalStatus
                     /\ task_plan[j].task_mode \in {"ASSIGN_AGENT", "DIRECT_ANSWER"}
                     /\ task_plan[j].task_mode = "DIRECT_ANSWER"
                          => task_plan[j].task_status = "success"]_vars

\* The third subtask of a plan is at dispatch, after a directly answered
\* first and an executed and checked second subtask.
C30_Witness ==
    /\ pc = "dispatch"
    /\ next_task = 3
    /\ task_plan[1].task_mode = "DIRECT_ANSWER"
    /\ task_plan[2].task_mode = "ASSIGN_AGENT"
    /\ task_plan[2].task_status \in TerminalStatus
    /\ task_plan[3].task_status = "not started"
    /\ task_plan[3].task_mode # None

\* C31: plan_update is called only while a not started subtask remains;
\* when the subtask just checked was the last not started one, the inner
\* loop has ended (the run stands at step 5) and plan_update is not called.
C31_UpdateOnlyWithWorkLeft ==
    /\ pc = "plan_update" =>
          \E i \in 1..Len(task_plan) : task_plan[i].task_status = "not started"
    /\ (last_check.task # 0 /\ pc # "crashed"
         /\ \A i \in 1..Len(task_plan) :
                task_plan[i].task_status # "not started")
        => pc = "reflection"

\* The last not started subtask has been executed and checked, and the
\* inner loop has ended.
C31_Witness ==
    /\ pc = "reflection"
    /\ last_check.task = Len(task_plan)
    /\ Len(task_plan) > 1
    /\ \A i \in 1..Len(task_plan) : task_plan[i].task_status # "not started"

\* The ids of the subtasks shown in a section of the plan_update prompt.
SectionIds(section) == {section[i][1] : i \in 1..Len(section)}

\* C35: when plan_update builds its prompt (budget left), the previous
\* section shows exactly the subtasks with id <= the id of the subtask just
\* finished and the unfinished section exactly those with a greater id.
C35_SectionsSplitAtCursor ==
    (pc = "plan_update" /\ ~BudgetExhausted(_modify_plan_budgets)) =>
        LET last_task_id == task_plan[next_task].task_id
            ids == {task_plan[i].task_id : i \in 1..Len(task_plan)}
        IN  /\ SectionIds(previous_task_plan(task_plan, last_task_id))
                  = {id \in ids : id <= last_task_id}
            /\ SectionIds(unfinished_task_plan(task_plan, last_task_id))
                  = {id \in ids : id > last_task_id}

\* The positions of step 5 below the reflection budget test.
EvaluationPcs == GatePcs \ {"reflection"}

\* C36: the planning pass that starts with the reflection counter equal to
\* planner_max_reflection (the pass of plan_task call max_reflection + 1)
\* is never evaluated: the failed-task check, extract_final_answer, the
\* quality check and the self-check run only in earlier passes, and the run
\* returns from that pass with no gate passed.
C36_LastPassNotEvaluated ==
    /\ pc \in EvaluationPcs =>
          /\ calls.plan_task <= planner_max_reflection
          /\ calls.plan_task = _planner_reflection_count
    /\ (pc = "done" /\ calls.plan_task > planner_max_reflection) =>
          /\ ~gate.passed
          /\ gate.self_check # "yes"
          /\ tentative_answer \in
                {""} \cup {ParseAnswer(r.answer) : r \in FinalAnswerResponses}

\* run() has returned from the pass after the last reflection with a
\* tentative answer that an earlier pass extracted and rejected.
C36_Witness ==
    /\ pc = "done"
    /\ calls.plan_task = planner_max_reflection + 1
    /\ tentative_answer # ""
    /\ gate.quality = "rejected"
    /\ \E i \in 1..Len(task_plan) : task_plan[i].task_status = "failed"

\* C37: with the modify-plan budget at 0, a plan_update call that did not
\* itself spend the last unit has returned continue without a Planner
\* response (no model call, no trajectory entry); early_completion is not
\* returned any more, and the inner loop has ended (the run is at step 5)
\* only with no not started subtask left.
C37_ExhaustedBudgetNoEarlyExit ==
    _modify_plan_budgets <= 0 =>
        /\ (last_update.cursor # 0 /\ last_update.parsed # "update") =>
                /\ last_update.parsed = None
                /\ last_update.choice = "continue"
                /\ pc # "crashed"
        /\ last_update.choice # "early_completion"
        /\ pc \in GatePcs =>
                \A i \in 1..Len(task_plan) :
                    task_plan[i].task_status # "not started"

\* In a replanned pass, after a positive budget was used up, plan_update
\* has returned continue without a Planner response and the inner loop goes
\* on with the next subtask.
C37_Witness ==
    /\ pc = "assign_task"
    /\ calls.plan_task >= 2
    /\ planner_modify_budgets >= 1
    /\ _modify_plan_budgets = 0
    /\ last_update.cursor >= 1
    /\ last_update.parsed = None

\* C38: every update choice costs one unit of the modify-plan budget,
\* whether or not it replaces the tail: the budget is the initial budget
\* less the update choices made, an update choice whose new tail is missing
\* or empty leaves the plan as it was (and is reported as continue), and
\* the tail replacements are at most the update choices.
C38_UnusableUpdateCharged ==
    /\ _modify_plan_budgets = planner_modify_budgets - calls.update_choice
    /\ calls.tail_replaced <= calls.update_choice
    /\ (last_update.parsed = "update"
         /\ last_update.updated_plan \in {NoneSeq, <<>>}) =>
            /\ ~last_update.applied
            /\ last_update.choice = "continue"

\* The budget has reached 0 on an update choice without a usable tail,
\* with fewer tail replacements than the initial budget.
C38_Witness ==
    /\ _modify_plan_budgets = 0
    /\ calls.tail_replaced < planner_modify_budgets
    /\ last_update.parsed = "update"
    /\ last_update.updated_plan = NoneSeq
    /\ ~last_update.applied

\* C39: in every state no not started subtask precedes a subtask that has
\* left not started (the plan is a run of started subtasks followed by a
\* run of not started ones); the subtask passed to plan_update is the last
\* one that has left not started; and the prefix a plan update has kept
\* (all but the new tail) contains no not started subtask.
C39_FinishedThenNotStarted ==
    /\ \A i, j \in 1..Len(task_plan) :
          (i < j /\ task_plan[j].task_status # "not started")
              => task_plan[i].task_status # "not started"
    /\ pc = "plan_update" =>
          /\ next_task \in 1..Len(task_plan)
          /\ task_plan[next_task].task_status # "not started"
          /\ \A i \in 1..Len(task_plan) :
                i > next_task => task_plan[i].task_status = "not started"
    /\ last_update.applied =>
          LET kept == Len(task_plan) - Len(last_update.updated_plan)
          IN  /\ kept = last_update.cursor
              /\ \A i \in 1..kept : task_plan[i].task_status # "not started"

\* A plan update after the second subtask has kept a prefix of two
\* finished subtasks and put a not started tail behind it.
C39_Witness ==
    /\ last_update.applied
    /\ last_update.cursor = 2
    /\ Len(task_plan) > 2
    /\ task_plan[3].task_status = "not started"
    /\ task_plan[1].task_status # "not started"
    /\ task_plan[2].task_status # "not started"

\* C32: execute_python_code never raises to its caller, and a call whose
\* job timed out, that got no pool worker, or whose await raised any other
\* exception has returned a record with success = false and status = false.
C32_FailureRecordNotRaise ==
    \A c \in Calls :
        /\ py_call[c].pc # "raised"
        /\ py_call[c].raised = None
        /\ (py_call[c].pc = "returned"
            /\ py_call[c].outcome \in {"timeout", "no_worker", "exception"})
           => py_call[c].result = <<FALSE, FALSE>>

\* One call has returned after its job timed out and another after it got
\* no worker from the pool.
C32_Witness ==
    \E c, d \in Calls :
        /\ py_call[c].pc = "returned" /\ py_call[c].outcome = "timeout"
        /\ py_call[d].pc = "returned" /\ py_call[d].outcome = "no_worker"

\* C33: run_bash honors its configured wallclock timeout: it is never
\* still waiting for the command once more time than the timeout has
\* passed.
C33_RunBashHonorsTimeout ==
    bash_call.pc = "communicate" => bash_clock <= bash_timeout

\* The executors that calls hold at the moment.
Acquired == {py_call[c].executor : c \in {d \in Calls : py_call[d].pc = "running"}}

\* C34: an executor whose job did not return within the call's timeout is
\* not in the available queue, not registered in the pool and serves no
\* call: its release replaced it by a fresh executor.
C34_TimedOutWorkerDiscarded ==
    \A executor \in timed_out :
        /\ executor \notin Range(available_processes)
        /\ executor \notin process_pools
        /\ executor \notin Acquired
        /\ Len(available_processes) + Cardinality(Acquired) = max_workers

\* After a timeout a later call is served by the fresh executor that
\* replaced the timed-out one.
C34_Witness ==
    /\ timed_out # {}
    /\ \E c \in Calls :
        /\ py_call[c].pc = "running"
        /\ py_call[c].executor > max_workers

\* C40: in every interleaving of the calls, the executors in the available
\* queue plus the executors acquired number max_workers, process_pools
\* registers exactly those executors, and no executor is in the queue twice,
\* in the queue while acquired, or held by two calls.
C40_PoolConservation ==
    /\ Len(available_processes) + Cardinality(Acquired) = max_workers
    /\ process_pools = Range(available_processes) \cup Acquired
    /\ Cardinality(Range(available_processes)) = Len(available_processes)
    /\ Range(available_processes) \cap Acquired = {}
    /\ \A c, d \in Calls :
         (c # d /\ py_call[c].pc = "running" /\ py_call[d].pc = "running")
            => py_call[c].executor # py_call[d].executor

\* While one call holds an executor another call has returned, and the
\* executor it released was replaced in the queue and in the registry.
C40_Witness ==
    \E c, d \in Calls :
        /\ py_call[c].pc = "running"
        /\ py_call[d].pc = "returned" /\ py_call[d].executor # 0
        /\ py_call[d].executor \notin process_pools
        /\ max_workers = 2
        /\ \E executor \in Range(available_processes) :
                executor > max_workers

====
